---- MODULE Spec2Model ----
(***************************************************************************)
(* Referral commission engine of the tekwealth-lms backend:                *)
(*   - lineage construction at registration (crud/user_crud.py,            *)
(*     routes/auth_routes.py),                                             *)
(*   - commission generation in the Stripe webhook                         *)
(*     (routes/subscription_routes.py),                                    *)
(*   - the commission ledger, its status updates, statistics and the       *)
(*     downline traversal (crud/referral_crud.py, routes/referral_routes). *)
(*                                                                         *)
(* Tables are sequences; the primary key of a row is its index (the        *)
(* autoincrement Integer id columns).  NULL is 0, which no id ever takes.  *)
(* Money is held in cents (DECIMAL(10,2)), rates in 1/10000 (DECIMAL(5,4)).*)
(***************************************************************************)
EXTENDS Integers, Sequences, FiniteSets, TLC

VARIABLES users, payments, earnings, subscriptions, environ, dotenv, response, workers

vars == <<users, payments, earnings, subscriptions, environ, dotenv, response, workers>>

(***************************************************************************)
(* Bounds of the model.                                                    *)
(***************************************************************************)
MaxUsers == 4
MaxPayments == 2
MaxEarnings == 3
LedgerUsers == 2
NumWorkers == 2
FrameUsers == 3
FramePayments == 1

NULL == 0

(***************************************************************************)
(* models/enums.py                                                         *)
(***************************************************************************)
ReferralCommissionStatus == {"pending", "approved", "paid", "rejected"}

PaymentStatus == {"pending", "succeeded", "failed", "refunded"}

(***************************************************************************)
(* Environment: COMMISSION_RATE_L1/L2/L3 in 1/10000, read by os.getenv     *)
(* with the defaults 0.10, 0.05, 0.02.                                     *)
(***************************************************************************)
DefaultRates == <<1000, 500, 200>>

(* amount_paid of the invoices, in cents *)
AmountsPaid == {0, 1005, 10000}

(***************************************************************************)
(* crud/user_crud.py lookups                                               *)
(***************************************************************************)
get_user_by_id(us, user_id) ==
    IF user_id \in DOMAIN us THEN user_id ELSE NULL

get_user_by_firebase_uid(us, uid) ==
    IF \E i \in DOMAIN us : us[i].firebase_uid = uid
    THEN CHOOSE i \in DOMAIN us : us[i].firebase_uid = uid
    ELSE NULL

get_user_by_referral_code(us, code) ==
    IF \E i \in DOMAIN us : us[i].referral_code = code
    THEN CHOOSE i \in DOMAIN us : us[i].referral_code = code
    ELSE NULL

(* routes/auth_routes.py: a code that no user has yet.  The random 8-hex   *)
(* token is abstracted to the least unused code number.                    *)
generate_unique_referral_code(us) ==
    CHOOSE c \in 1..(Len(us) + 1) :
        /\ get_user_by_referral_code(us, c) = NULL
        /\ \A d \in 1..(c - 1) : get_user_by_referral_code(us, d) # NULL

(***************************************************************************)
(* create_user: the upline snapshot.  upline_l1 is the joined User object  *)
(* of the referrer's upline_l1_id.                                         *)
(***************************************************************************)
UplineL3Mut(us, r) ==
    IF /\ us[r].upline_l1_id # NULL
       /\ get_user_by_id(us, us[r].upline_l1_id) # NULL
       /\ us[us[r].upline_l1_id].upline_l1_id # NULL
    THEN us[r].upline_l3_id
    ELSE NULL

UplineL3(us, r) ==
    IF /\ us[r].upline_l1_id # NULL
       /\ get_user_by_id(us, us[r].upline_l1_id) # NULL
       /\ us[us[r].upline_l1_id].upline_l1_id # NULL
    THEN us[r].upline_l2_id
    ELSE NULL

UplineL2Mut(us, r) ==
    IF us[r].upline_l1_id # NULL THEN us[r].upline_l2_id ELSE NULL

UplineL2(us, r) ==
    IF us[r].upline_l1_id # NULL THEN us[r].upline_l1_id ELSE NULL

NewUserRowMut(us, uid, code, referred_by_id) ==
    [firebase_uid |-> uid, role |-> "Subscriber", referral_code |-> code,
     referred_by_id |-> referred_by_id, upline_l1_id |-> referred_by_id,
     upline_l2_id |-> NULL, upline_l3_id |-> NULL]

(* The row create_user builds before db.add *)
NewUserRow(us, uid, code, referred_by_id) ==
    LET r == IF referred_by_id # NULL THEN get_user_by_id(us, referred_by_id) ELSE NULL
    IN  [firebase_uid   |-> uid,
         role           |-> "Subscriber",
         referral_code  |-> code,
         referred_by_id |-> referred_by_id,
         upline_l1_id   |-> IF r # NULL THEN r ELSE NULL,
         upline_l2_id   |-> IF r # NULL THEN UplineL2(us, r) ELSE NULL,
         upline_l3_id   |-> IF r # NULL THEN UplineL3(us, r) ELSE NULL]

(* ForeignKey("users.id") on referred_by_id and the upline columns: the    *)
(* commit raises IntegrityError when a reference is dangling.  The         *)
(* constraint is checked once the row is in the table, so a reference to   *)
(* the id the row itself receives, Len(us) + 1, is not dangling.           *)
UserForeignKeysHold(us, row) ==
    \A f \in {row.referred_by_id, row.upline_l1_id, row.upline_l2_id, row.upline_l3_id} :
        f = NULL \/ f \in DOMAIN us \/ f = Len(us) + 1

create_userMut(us, uid, code, referred_by_id) ==
    IF get_user_by_firebase_uid(us, uid) # NULL
    THEN [ok |-> FALSE, users |-> us]
    ELSE LET row == NewUserRow(us, uid, code, referred_by_id)
         IN  [ok |-> TRUE,
              users |-> Append(us, [row EXCEPT !.upline_l2_id = NULL,
                                               !.upline_l3_id = row.upline_l1_id])]

(* create_user returns the new table, or the old one with ok = FALSE       *)
(* (return None) *)
create_user(us, uid, code, referred_by_id) ==
    IF get_user_by_firebase_uid(us, uid) # NULL
    THEN [ok |-> FALSE, users |-> us]
    ELSE LET row == NewUserRow(us, uid, code, referred_by_id)
         IN  IF UserForeignKeysHold(us, row)
             THEN [ok |-> TRUE, users |-> Append(us, row)]
             ELSE [ok |-> FALSE, users |-> us]

(***************************************************************************)
(* Responses of the handlers                                               *)
(***************************************************************************)
Resp(op, status, arg, body) ==
    [op |-> op, status |-> status, arg |-> arg, body |-> body]

NoResponse == Resp("none", 0, <<>>, <<>>)

(***************************************************************************)
(* POST /auth/register                                                     *)
(***************************************************************************)
register_user_after_firebase(uid, referral_code_used) ==
    /\ IF get_user_by_firebase_uid(users, uid) # NULL
       THEN /\ response' = Resp("register", 409, <<>>, <<>>)
            /\ users' = users
       ELSE IF referral_code_used # NULL
               /\ get_user_by_referral_code(users, referral_code_used) = NULL
       THEN /\ response' = Resp("register", 400, <<uid, referral_code_used>>, <<>>)
            /\ users' = users
       ELSE LET referred_by_user_id ==
                    IF referral_code_used # NULL
                    THEN get_user_by_referral_code(users, referral_code_used)
                    ELSE NULL
                res == create_user(users, uid, generate_unique_referral_code(users),
                                   referred_by_user_id)
            IN  /\ Len(users) < MaxUsers
                /\ users' = res.users
                /\ response' = Resp("register", IF res.ok THEN 201 ELSE 500,
                                    <<uid, referral_code_used>>, <<>>)
    /\ UNCHANGED <<payments, earnings, environ, dotenv, subscriptions, workers>>

Register ==
    \E uid \in 1..(Len(users) + 1), code \in 0..(Len(users) + 1) :
        register_user_after_firebase(uid, code)

(***************************************************************************)
(* crud create_user called with a referred_by_id its caller has not        *)
(* resolved: any id, that of an existing user or not.  status 1 is a       *)
(* returned User, status 0 is None.                                        *)
(***************************************************************************)
create_user_unvalidated(uid, referred_by_id) ==
    LET res == create_user(users, uid, generate_unique_referral_code(users),
                           referred_by_id)
    IN  /\ Len(res.users) <= MaxUsers
        /\ users' = res.users
        /\ response' = Resp("create_user", IF res.ok THEN 1 ELSE 0,
                            <<uid, referred_by_id>>, <<>>)
        /\ UNCHANGED <<payments, earnings, environ, dotenv, subscriptions, workers>>

CreateUser ==
    \E uid \in {Len(users), Len(users) + 1} \ {0}, r \in 0..(Len(users) + 2) :
        create_user_unvalidated(uid, r)

(***************************************************************************)
(* PUT /admin/users/{user_id} and crud update_user_by_admin: every field   *)
(* set in AdminUserUpdate (email, role) is assigned to the row.  NoRole is *)
(* a body that leaves role unset; the email column is not part of the      *)
(* modelled row.                                                           *)
(***************************************************************************)
Roles == {"Subscriber", "Admin"}

NoRole == "None"

update_user_by_adminMut(us, user_id, role) ==
    [us EXCEPT ![user_id].role = role, ![user_id].upline_l1_id = NULL]

update_user_by_admin(us, user_id, role) ==
    IF role = NoRole THEN us ELSE [us EXCEPT ![user_id].role = role]

admin_update_user(user_id, role) ==
    /\ IF get_user_by_id(users, user_id) = NULL
       THEN /\ response' = Resp("admin_update_user", 404, <<user_id>>, <<>>)
            /\ users' = users
       ELSE /\ users' = update_user_by_admin(users, user_id, role)
            /\ response' = Resp("admin_update_user", 200, <<user_id, role>>, <<>>)
    /\ UNCHANGED <<payments, earnings, environ, dotenv, subscriptions, workers>>

AdminUpdateUser ==
    \E u \in 1..(Len(users) + 1), role \in Roles \cup {NoRole} :
        admin_update_user(u, role)

(***************************************************************************)
(* crud/referral_crud.py: downline traversal.  A query result is the set   *)
(* of ids of the rows it returns.                                          *)
(***************************************************************************)
UsersWithUplineL1InMut(us, ids) ==
    {i \in DOMAIN us : us[i].upline_l1_id \in ids \/ us[i].upline_l2_id \in ids}

UsersWithUplineL1In(us, ids) ==
    {i \in DOMAIN us : us[i].upline_l1_id \in ids}

DictPut(d, k, v) ==
    [x \in (DOMAIN d) \cup {k} |-> IF x = k THEN v ELSE d[x]]

Level3UsersMut(us, level1_ids, level2_ids) ==
    UsersWithUplineL1In(us, level1_ids)

Level3Users(us, level1_ids, level2_ids) ==
    UsersWithUplineL1In(us, level2_ids)

get_downline_users_flat(us, user_id, max_levels) ==
    LET downline_by_level == [level \in 1..max_levels |-> {}]
        level1_users == UsersWithUplineL1In(us, {user_id})
        level2_users == UsersWithUplineL1In(us, level1_users)
        level3_users == Level3Users(us, level1_users, level2_users)
    IN  IF level1_users = {} THEN downline_by_level
        ELSE LET d1 == DictPut(downline_by_level, 1, level1_users)
             IN  IF max_levels >= 2
                 THEN IF level2_users = {} THEN d1
                      ELSE LET d2 == DictPut(d1, 2, level2_users)
                           IN  IF max_levels >= 3
                               THEN DictPut(d2, 3, level3_users)
                               ELSE d2
                 ELSE d1

(***************************************************************************)
(* The db.query(User) calls get_downline_users_flat issues, in order, each *)
(* as the set of ids its filter on upline_l1_id names: the same branches   *)
(* and early returns as above.                                             *)
(***************************************************************************)
downline_queriesMut(us, user_id, max_levels) ==
    LET level1_users == UsersWithUplineL1In(us, {user_id})
        level2_users == UsersWithUplineL1In(us, level1_users)
    IN  SubSeq(<<{user_id}, level1_users, level2_users>>, 1, max_levels)

downline_queries(us, user_id, max_levels) ==
    LET level1_users == UsersWithUplineL1In(us, {user_id})
        level2_users == UsersWithUplineL1In(us, level1_users)
        q1 == <<{user_id}>>
    IN  IF level1_users = {} THEN q1
        ELSE IF max_levels >= 2
             THEN LET q2 == Append(q1, level1_users)
                  IN  IF level2_users = {} THEN q2
                      ELSE IF max_levels >= 3
                           THEN Append(q2, level2_users)
                           ELSE q2
             ELSE q1

(***************************************************************************)
(* GET /referrals/me/downline: max_levels is validated by                  *)
(* Query(3, ge=1, le=3); the body is the flat list of (user, level) nodes. *)
(***************************************************************************)
MinLevels == 1
MaxLevels == 3

get_my_downline(current_user, max_levels) ==
    LET downline_by_level == get_downline_users_flat(users, current_user, max_levels)
        nodes == {<<u, level>> : u \in DOMAIN users, level \in DOMAIN downline_by_level}
    IN  /\ response' = Resp("downline", 200, <<current_user, max_levels>>,
                            [by_level |-> downline_by_level,
                             nodes |-> {n \in nodes : n[1] \in downline_by_level[n[2]]},
                             queries |-> downline_queries(users, current_user, max_levels)])
        /\ UNCHANGED <<users, payments, earnings, environ, dotenv, subscriptions, workers>>

Downline ==
    \E u \in DOMAIN users, m \in MinLevels..MaxLevels : get_my_downline(u, m)

(***************************************************************************)
(* crud/subscription_crud.py: the user_subscriptions table.  The Stripe    *)
(* subscription id of a row is a number.                                   *)
(***************************************************************************)
SubscriptionStatus == {"active", "canceled", "expired", "pending_payment", "incomplete"}

get_user_subscription_by_stripe_id(subs, stripe_subscription_id) ==
    IF \E i \in DOMAIN subs : subs[i].stripe_subscription_id = stripe_subscription_id
    THEN CHOOSE i \in DOMAIN subs : subs[i].stripe_subscription_id = stripe_subscription_id
    ELSE NULL

create_user_subscription(subs, user_id, status, stripe_subscription_id) ==
    Append(subs, [user_id |-> user_id, status |-> status,
                  stripe_subscription_id |-> stripe_subscription_id])

update_user_subscription_status(subs, subscription_id, status) ==
    IF subscription_id \in DOMAIN subs
    THEN [subs EXCEPT ![subscription_id].status = status]
    ELSE subs

(***************************************************************************)
(* crud/payment_crud.py                                                    *)
(***************************************************************************)
get_payment_by_transaction_id(ps, transaction_id) ==
    IF \E i \in DOMAIN ps : ps[i].transaction_id = transaction_id
    THEN CHOOSE i \in DOMAIN ps : ps[i].transaction_id = transaction_id
    ELSE NULL

get_payment_by_payment_intent_id(ps, payment_intent_id) ==
    IF \E i \in DOMAIN ps : ps[i].payment_intent_id = payment_intent_id
    THEN CHOOSE i \in DOMAIN ps : ps[i].payment_intent_id = payment_intent_id
    ELSE NULL

create_payment_recordMut(ps, user_id, amount, status, transaction_id, payment_intent_id) ==
    Append(ps, [user_id |-> user_id, amount |-> amount, status |-> "pending",
                transaction_id |-> transaction_id,
                payment_intent_id |-> payment_intent_id])

create_payment_record(ps, user_id, amount, status, transaction_id, payment_intent_id) ==
    Append(ps, [user_id |-> user_id, amount |-> amount, status |-> status,
                transaction_id |-> transaction_id,
                payment_intent_id |-> payment_intent_id])

update_payment_statusMut(ps, payment_id_internal, transaction_id_gateway, new_status) == ps

(* The record's transaction_id is filled in when it has none (lines        *)
(* 153-154).                                                               *)
update_payment_status(ps, payment_id_internal, transaction_id_gateway, new_status) ==
    [ps EXCEPT ![payment_id_internal].status = new_status,
               ![payment_id_internal].transaction_id =
                   IF transaction_id_gateway # NULL /\ @ = NULL
                   THEN transaction_id_gateway ELSE @]

(* transaction_id and payment_intent_id are unique=True: a second row with *)
(* a non-null value another row has makes the commit raise IntegrityError. *)
PaymentUniqueKeysHoldMut(ps, transaction_id, payment_intent_id) == TRUE

PaymentUniqueKeysHold(ps, transaction_id, payment_intent_id) ==
    /\ transaction_id # NULL => get_payment_by_transaction_id(ps, transaction_id) = NULL
    /\ payment_intent_id # NULL
           => get_payment_by_payment_intent_id(ps, payment_intent_id) = NULL

(* subscription_routes.py lines 348-350: the payment of an invoice, by     *)
(* its charge or else by its PaymentIntent.                                *)
payment_of_invoice(ps, charge_id, payment_intent_id) ==
    LET db_payment == get_payment_by_transaction_id(ps, charge_id)
    IN  IF db_payment = NULL /\ payment_intent_id # NULL
        THEN get_payment_by_payment_intent_id(ps, payment_intent_id)
        ELSE db_payment

(* Decimal(amount_paid / 100) stored in the DECIMAL(10,2) column amount:   *)
(* the stored number of cents is amount_paid.                              *)
StoredAmount(amount_paid) == amount_paid

(***************************************************************************)
(* Storing a Decimal product in DECIMAL(10,2): PostgreSQL rounds numeric   *)
(* half away from zero.  amount is in cents, rate in 1/10000.              *)
(***************************************************************************)
StoredCommissionMut(amount, rate) == (amount * rate) \div 10000

StoredCommission(amount, rate) == (amount * rate + 5000) \div 10000

(***************************************************************************)
(* crud/referral_crud.py: create_referral_earning inserts unconditionally; *)
(* the table has the index idx_user_level_status and no unique constraint. *)
(***************************************************************************)
create_referral_earningMut(es, earning_in) ==
    IF \E i \in DOMAIN es : /\ es[i].user_id = earning_in.user_id
                             /\ es[i].referred_user_id = earning_in.referred_user_id
                             /\ es[i].referral_level = earning_in.referral_level
    THEN es
    ELSE Append(es, earning_in)

create_referral_earning(es, earning_in) == Append(es, earning_in)

ReferralEarningCreateMut(user_id, referred_user_id, payment_id, amount, rate, level) ==
    [user_id |-> referred_user_id, referred_user_id |-> referred_user_id,
     source_payment_id |-> payment_id,
     commission_amount |-> amount,
     commission_rate |-> rate,
     referral_level |-> level,
     status |-> "pending", notes |-> NULL]

ReferralEarningCreate(user_id, referred_user_id, payment_id, amount, rate, level) ==
    [user_id |-> user_id, referred_user_id |-> referred_user_id,
     source_payment_id |-> payment_id,
     commission_amount |-> amount,
     commission_rate |-> rate,
     referral_level |-> level,
     status |-> "pending", notes |-> NULL]

(***************************************************************************)
(* routes/subscription_routes.py: the commission loop of                   *)
(* invoice.payment_succeeded.                                              *)
(***************************************************************************)
upline_users_and_ratesMut(paying_user, rates) ==
    << <<paying_user.upline_l1_id, rates[1], 1>>,
       <<paying_user.upline_l3_id, rates[2], 2>>,
       <<paying_user.upline_l2_id, rates[3], 3>> >>

upline_users_and_rates(paying_user, rates) ==
    << <<paying_user.upline_l1_id, rates[1], 1>>,
       <<paying_user.upline_l2_id, rates[2], 2>>,
       <<paying_user.upline_l3_id, rates[3], 3>> >>

HasUplineMut(upline_user_id) == TRUE

HasUpline(upline_user_id) == upline_user_id # NULL

RECURSIVE CommissionLoop(_, _, _, _, _, _)
CommissionLoop(es, todo, paying_user_id, payment_id, amount, k) ==
    IF k > Len(todo) THEN es
    ELSE LET upline_user_id == todo[k][1]
             rate == todo[k][2]
             level == todo[k][3]
         IN  IF HasUpline(upline_user_id)
             THEN CommissionLoop(
                      create_referral_earning(es,
                          ReferralEarningCreate(upline_user_id, paying_user_id, payment_id,
                                                StoredCommission(amount, rate), rate, level)),
                      todo, paying_user_id, payment_id, amount, k + 1)
             ELSE CommissionLoop(es, todo, paying_user_id, payment_id, amount, k + 1)

(***************************************************************************)
(* POST /subscriptions/webhooks/stripe, event invoice.payment_succeeded.   *)
(* charge_id is the invoice's charge, stripe_subscription_id its           *)
(* subscription (NULL when it has none), customer_user_id the user its     *)
(* customer resolves to (NULL when it does not), amount_paid the invoice   *)
(* amount in cents.  The invoice's PaymentIntent carries the number of its *)
(* charge.  The response logs the charge, the user the payment is for and  *)
(* the amount, and the local subscription of the invoice.                  *)
(***************************************************************************)
UserSubOfInvoice(stripe_subscription_id) ==
    IF stripe_subscription_id # NULL
    THEN get_user_subscription_by_stripe_id(subscriptions, stripe_subscription_id)
    ELSE NULL

UserOfInvoice(db_user_sub, customer_user_id) ==
    IF db_user_sub # NULL THEN subscriptions[db_user_sub].user_id ELSE customer_user_id

(* lines 440-452: the subscription of the invoice is confirmed ACTIVE *)
ConfirmActive(db_user_sub) ==
    IF db_user_sub # NULL
    THEN update_user_subscription_status(subscriptions, db_user_sub, "active")
    ELSE subscriptions

webhook_stripe_payment_succeeded(charge_id, stripe_subscription_id, customer_user_id, amount_paid) ==
    LET db_user_sub == UserSubOfInvoice(stripe_subscription_id)
        user_id_for_payment == UserOfInvoice(db_user_sub, customer_user_id)
        arg == <<charge_id, user_id_for_payment, amount_paid>>
        body == [subscription |-> db_user_sub]
        found == payment_of_invoice(payments, charge_id, charge_id)
    IN
    /\ IF user_id_for_payment = NULL
       THEN /\ response' = Resp("payment_succeeded", 200, arg, body)
            /\ subscriptions' = ConfirmActive(db_user_sub)
            /\ UNCHANGED <<payments, earnings>>
       ELSE IF found = NULL /\ ~(StoredAmount(amount_paid) > 0)
       THEN (* PaymentCreate: amount must be gt 0 *)
            /\ response' = Resp("payment_succeeded", 500, arg, body)
            /\ UNCHANGED <<payments, earnings, subscriptions>>
       ELSE LET ps == IF found # NULL
                      THEN update_payment_status(payments, found, charge_id, "succeeded")
                      ELSE create_payment_record(payments, user_id_for_payment,
                                                 StoredAmount(amount_paid),
                                                 "succeeded", charge_id, charge_id)
                db_payment == IF found # NULL THEN found ELSE Len(ps)
                paying_user == get_user_by_id(users, user_id_for_payment)
                es == IF paying_user # NULL
                      THEN CommissionLoop(earnings,
                                          upline_users_and_rates(users[paying_user], environ),
                                          paying_user, db_payment, ps[db_payment].amount, 1)
                      ELSE earnings
            IN  /\ Len(ps) <= MaxPayments
                /\ Len(es) <= MaxEarnings
                /\ payments' = ps
                /\ earnings' = es
                /\ subscriptions' = ConfirmActive(db_user_sub)
                /\ response' = Resp("payment_succeeded", 200, arg, body)
    /\ UNCHANGED <<users, environ, dotenv, workers>>

(***************************************************************************)
(* The same handler when create_referral_earning raises at one level:      *)
(* db.commit() (referral_crud.py line 22) is not guarded, and neither is   *)
(* the call in the loop (subscription_routes.py line 408), so the          *)
(* exception leaves the loop and the handler; the rows of the levels       *)
(* before it are committed, the request ends with HTTP 500 and the         *)
(* statements after the loop (lines 440-452) do not run.                   *)
(***************************************************************************)
RECURSIVE CommissionLoopRaising(_, _, _, _, _, _, _)
CommissionLoopRaising(es, todo, paying_user_id, payment_id, amount, k, fail_level) ==
    IF k > Len(todo) THEN es
    ELSE LET upline_user_id == todo[k][1]
             rate == todo[k][2]
             level == todo[k][3]
         IN  IF HasUpline(upline_user_id)
             THEN IF level = fail_level THEN es
                  ELSE CommissionLoopRaising(
                           create_referral_earning(es,
                               ReferralEarningCreate(upline_user_id, paying_user_id,
                                   payment_id, StoredCommission(amount, rate), rate, level)),
                           todo, paying_user_id, payment_id, amount, k + 1, fail_level)
             ELSE CommissionLoopRaising(es, todo, paying_user_id, payment_id, amount,
                                        k + 1, fail_level)

webhook_stripe_payment_succeeded_raising(charge_id, stripe_subscription_id, customer_user_id, amount_paid, fail_level) ==
    LET db_user_sub == UserSubOfInvoice(stripe_subscription_id)
        user_id_for_payment == UserOfInvoice(db_user_sub, customer_user_id)
        found == payment_of_invoice(payments, charge_id, charge_id)
        ps == IF found # NULL
              THEN update_payment_status(payments, found, charge_id, "succeeded")
              ELSE create_payment_record(payments, user_id_for_payment,
                                         StoredAmount(amount_paid), "succeeded",
                                         charge_id, charge_id)
        db_payment == IF found # NULL THEN found ELSE Len(ps)
        paying_user == get_user_by_id(users, user_id_for_payment)
        todo == upline_users_and_rates(users[paying_user], environ)
        es == CommissionLoopRaising(earnings, todo, paying_user, db_payment,
                                    ps[db_payment].amount, 1, fail_level)
    IN  /\ paying_user # NULL
        /\ found # NULL \/ StoredAmount(amount_paid) > 0
        /\ HasUpline(todo[fail_level][1])
        /\ Len(ps) <= MaxPayments
        /\ Len(es) <= MaxEarnings
        /\ payments' = ps
        /\ earnings' = es
        /\ response' = Resp("payment_succeeded", 500,
                            <<charge_id, user_id_for_payment, amount_paid, fail_level>>,
                            [subscription |-> db_user_sub])
        /\ UNCHANGED <<users, environ, dotenv, subscriptions, workers>>

PaymentSucceededRaising ==
    \/ \E c \in DOMAIN payments, f \in 1..3 :
           webhook_stripe_payment_succeeded_raising(payments[c].transaction_id, NULL,
                                                    payments[c].user_id, payments[c].amount, f)
    \/ \E u \in DOMAIN users, a \in AmountsPaid, f \in 1..3 :
           webhook_stripe_payment_succeeded_raising(Len(payments) + 1, NULL, u, a, f)

(* A redelivered invoice names the customer and the amount of the charge   *)
(* it was first delivered for.                                             *)
PaymentSucceeded ==
    \/ \E c \in DOMAIN payments :
           webhook_stripe_payment_succeeded(payments[c].transaction_id, NULL,
                                            payments[c].user_id, payments[c].amount)
    \/ \E u \in 0..Len(users), a \in AmountsPaid :
           webhook_stripe_payment_succeeded(Len(payments) + 1, NULL, u, a)

(* Invoices of the local subscriptions, for a charge the table has or a    *)
(* new one.                                                                *)
InvoicePaid ==
    \E sub \in DOMAIN subscriptions, c \in 1..(Len(payments) + 1) :
        webhook_stripe_payment_succeeded(c, subscriptions[sub].stripe_subscription_id,
                                         NULL, 10000)

InvoicePaidRaising ==
    \E sub \in DOMAIN subscriptions, c \in 1..(Len(payments) + 1), f \in 1..3 :
        webhook_stripe_payment_succeeded_raising(
            c, subscriptions[sub].stripe_subscription_id, NULL, 10000, f)

(***************************************************************************)
(* POST /subscriptions/create-payment-intent: a UserSubscription is        *)
(* created (or the one with the Stripe subscription's id updated) in the   *)
(* status that corresponds to the Stripe subscription's; when Stripe       *)
(* returns a PaymentIntent a preliminary payment record is created in PENDING *)
(* status for the PaymentIntent, an identifier new to the table, with      *)
(* transaction_id = payment_intent.latest_charge: null, or the charge,     *)
(* which carries the number of the PaymentIntent.                          *)
(***************************************************************************)
user_sub_status(stripe_status) ==
    IF stripe_status = "active" THEN "active"
    ELSE IF stripe_status = "trialing" THEN "active"
    ELSE IF stripe_status = "incomplete" THEN "incomplete"
    ELSE "pending_payment"

create_payment_intent_for_subscription(current_user, amount, stripe_subscription, stripe_status, payment_intent, latest_charge) ==
    LET db_user_sub == get_user_subscription_by_stripe_id(subscriptions, stripe_subscription)
        ps == IF payment_intent # NULL
              THEN create_payment_record(payments, current_user, StoredAmount(amount),
                                         "pending", latest_charge, payment_intent)
              ELSE payments
    IN  /\ Len(ps) <= MaxPayments
        /\ subscriptions' =
               IF db_user_sub = NULL
               THEN create_user_subscription(subscriptions, current_user,
                                             user_sub_status(stripe_status), stripe_subscription)
               ELSE update_user_subscription_status(subscriptions, db_user_sub,
                                                    user_sub_status(stripe_status))
        /\ payments' = ps
        /\ response' = Resp("create_subscription", 200, <<current_user, amount>>, <<>>)
        /\ UNCHANGED <<users, earnings, environ, dotenv, workers>>

(* A Stripe subscription that needs a payment is incomplete and comes with *)
(* a PaymentIntent; its id is new.                                         *)
Subscribe ==
    \E u \in DOMAIN users, a \in AmountsPaid \ {0} :
        create_payment_intent_for_subscription(u, a, Len(subscriptions) + 1, "incomplete",
                                               Len(payments) + 1, Len(payments) + 1)

(* Identifiers of charges and PaymentIntents at the gateway *)
GatewayIds == 1..MaxPayments

SubscribeBeforeCharge ==
    \E u \in DOMAIN users, pi \in GatewayIds :
        /\ get_payment_by_payment_intent_id(payments, pi) = NULL
        /\ create_payment_intent_for_subscription(u, 10000, Len(subscriptions) + 1,
                                                  "incomplete", pi, NULL)

(***************************************************************************)
(* POST /subscriptions/webhooks/stripe, event invoice.payment_failed: the  *)
(* payment record of the charge, when there is one, is set to FAILED, and  *)
(* the local subscription of the invoice, when there is one, to            *)
(* PENDING_PAYMENT.                                                        *)
(***************************************************************************)
webhook_stripe_payment_failed(charge_id, stripe_subscription_id) ==
    LET found == get_payment_by_transaction_id(payments, charge_id)
        db_user_sub == UserSubOfInvoice(stripe_subscription_id)
    IN  /\ payments' = IF found # NULL
                       THEN update_payment_status(payments, found, charge_id, "failed")
                       ELSE payments
        /\ subscriptions' =
               IF db_user_sub # NULL
               THEN update_user_subscription_status(subscriptions, db_user_sub,
                                                    "pending_payment")
               ELSE subscriptions
        /\ response' = Resp("payment_failed", 200, <<charge_id>>, <<>>)
        /\ UNCHANGED <<users, earnings, environ, dotenv, workers>>

PaymentFailed ==
    \E c \in 1..(Len(payments) + 1) : webhook_stripe_payment_failed(c, NULL)

InvoiceFailed ==
    \E sub \in DOMAIN subscriptions, c \in 1..(Len(payments) + 1) :
        webhook_stripe_payment_failed(c, subscriptions[sub].stripe_subscription_id)

(***************************************************************************)
(* PUT /referrals/admin/earnings/{earning_id}/status and                   *)
(* crud update_referral_earning_status.  NoStatus is a body without a      *)
(* status (ReferralEarningUpdate.status = None), notes NULL is None.       *)
(***************************************************************************)
NoStatus == "None"

update_referral_earning_statusMut(es, earning_id, new_status, notes) ==
    IF earning_id \notin DOMAIN es THEN es
    ELSE [es EXCEPT ![earning_id].status = new_status,
                    ![earning_id].notes = IF notes # NULL THEN notes ELSE @,
                    ![earning_id].commission_amount =
                        IF new_status = "rejected" THEN 0 ELSE @]

update_referral_earning_status(es, earning_id, new_status, notes) ==
    IF earning_id \notin DOMAIN es THEN es
    ELSE [es EXCEPT ![earning_id].status = new_status,
                    ![earning_id].notes = IF notes # NULL THEN notes ELSE @]

admin_update_earning_status(earning_id, new_status, notes) ==
    LET arg == <<earning_id, new_status, notes>>
    IN
    /\ IF new_status = NoStatus
       THEN /\ response' = Resp("update_status", 400, <<>>, <<>>)
            /\ earnings' = earnings
       ELSE IF earning_id \notin DOMAIN earnings
       THEN /\ response' = Resp("update_status", 404, <<earning_id>>, <<>>)
            /\ earnings' = earnings
       ELSE /\ earnings' = update_referral_earning_status(earnings, earning_id,
                                                          new_status, notes)
            /\ response' = Resp("update_status", 200, arg, earnings'[earning_id])
    /\ UNCHANGED <<users, payments, environ, dotenv, subscriptions, workers>>

UpdateStatusWith(NotesIn) ==
    \E e \in 1..(Len(earnings) + 1), st \in ReferralCommissionStatus \cup {NoStatus},
       n \in NotesIn :
        admin_update_earning_status(e, st, n)

UpdateStatus == UpdateStatusWith({NULL})

(* the same request with a notes text in the body *)
NoteTexts == {1}

UpdateStatusNotes == UpdateStatusWith({NULL} \cup NoteTexts)

(***************************************************************************)
(* crud/referral_crud.py: get_referral_stats_for_user.                     *)
(* func.sum over no rows is SQL NULL (None); "or Decimal('0.00')" turns    *)
(* None, and a zero sum, into 0.00.                                        *)
(***************************************************************************)
SqlNull == -1

RECURSIVE SumAmounts(_, _, _, _)
SumAmounts(es, user_id, status, k) ==
    IF k > Len(es) THEN SqlNull
    ELSE LET rest == SumAmounts(es, user_id, status, k + 1)
         IN  IF es[k].user_id = user_id /\ es[k].status = status
             THEN es[k].commission_amount + (IF rest = SqlNull THEN 0 ELSE rest)
             ELSE rest

OrZero(scalar) == IF scalar = SqlNull \/ scalar = 0 THEN 0 ELSE scalar

StatusSumMut(es, user_id, status) ==
    OrZero(SumAmounts(es, user_id, IF status = "paid" THEN "rejected" ELSE status, 1))

StatusSum(es, user_id, status) == OrZero(SumAmounts(es, user_id, status, 1))

get_referral_stats_for_user(us, es, user_id) ==
    LET level1_ids == {i \in DOMAIN us : us[i].upline_l1_id = user_id}
        level2_ids == {i \in DOMAIN us : us[i].upline_l1_id \in level1_ids}
        pending_sum == StatusSum(es, user_id, "pending")
        approved_sum == StatusSum(es, user_id, "approved")
        paid_sum == StatusSum(es, user_id, "paid")
    IN  [total_direct_referrals |-> Cardinality(level1_ids),
         total_l1_referrals |-> Cardinality(level1_ids),
         total_l2_referrals |-> Cardinality(level2_ids),
         total_l3_referrals |->
             Cardinality({i \in DOMAIN us : us[i].upline_l1_id \in level2_ids}),
         pending_commission_total |-> pending_sum,
         approved_commission_total |-> approved_sum,
         paid_commission_total |-> paid_sum,
         lifetime_commission_total |-> pending_sum + approved_sum + paid_sum]

(* GET /referrals/me/stats *)
get_my_referral_stats(current_user) ==
    /\ response' = Resp("stats", 200, <<current_user>>,
                        get_referral_stats_for_user(users, earnings, current_user))
    /\ UNCHANGED <<users, payments, earnings, environ, dotenv, subscriptions, workers>>

Stats == \E u \in DOMAIN users : get_my_referral_stats(u)

(***************************************************************************)
(* Removal of a user or a payment.  No handler of the application deletes  *)
(* either; what a removal does to the ledger is fixed by the schema:       *)
(* referral_earnings.user_id is ondelete CASCADE (and User.referral_       *)
(* earnings cascades "all, delete-orphan"), referred_user_id and           *)
(* source_payment_id are ondelete SET NULL, payments.user_id is ondelete   *)
(* SET NULL while User.payments cascades "all, delete-orphan".  A removed  *)
(* row keeps its id: the id is never given to another row.                 *)
(***************************************************************************)
DeletedEarning ==
    [user_id |-> NULL, referred_user_id |-> NULL, source_payment_id |-> NULL,
     commission_amount |-> 0, commission_rate |-> 0, referral_level |-> 0,
     status |-> "deleted", notes |-> NULL]

DeletedPayment ==
    [user_id |-> NULL, amount |-> 0, status |-> "deleted", transaction_id |-> NULL,
     payment_intent_id |-> NULL]

EarningsOnDeleteUser(es, u) ==
    [i \in DOMAIN es |->
        IF es[i].user_id = u THEN DeletedEarning
        ELSE IF es[i].referred_user_id = u THEN [es[i] EXCEPT !.referred_user_id = NULL]
        ELSE es[i]]

EarningsOnDeletePayments(es, ps) ==
    [i \in DOMAIN es |->
        IF es[i].source_payment_id \in ps THEN [es[i] EXCEPT !.source_payment_id = NULL]
        ELSE es[i]]

(* orm: the user is deleted through the session, so its payments are       *)
(* deleted with it; otherwise by a DELETE statement, and payments.user_id  *)
(* is set to null.  Only a user no other user refers to is removed: the    *)
(* newest one.                                                             *)
delete_user(u, orm) ==
    LET mine == {p \in DOMAIN payments : payments[p].user_id = u}
    IN  /\ u = Len(users)
        /\ u >= 1
        /\ users' = SubSeq(users, 1, u - 1)
        /\ payments' = [p \in DOMAIN payments |->
                           IF p \notin mine THEN payments[p]
                           ELSE IF orm THEN DeletedPayment
                           ELSE [payments[p] EXCEPT !.user_id = NULL]]
        /\ earnings' = EarningsOnDeletePayments(EarningsOnDeleteUser(earnings, u),
                                                IF orm THEN mine ELSE {})
        /\ response' = Resp("delete_user", 0, <<u>>, <<>>)
        /\ UNCHANGED <<environ, dotenv, subscriptions, workers>>

DeleteUser == \E u \in DOMAIN users, orm \in BOOLEAN : delete_user(u, orm)

delete_payment(p) ==
    /\ payments[p] # DeletedPayment
    /\ payments' = [payments EXCEPT ![p] = DeletedPayment]
    /\ earnings' = EarningsOnDeletePayments(earnings, {p})
    /\ response' = Resp("delete_payment", 0, <<p>>, <<>>)
    /\ UNCHANGED <<users, environ, dotenv, subscriptions, workers>>

DeletePayment == \E p \in DOMAIN payments : delete_payment(p)

(***************************************************************************)
(* Concurrent deliveries of invoice.payment_succeeded.  Each invocation of *)
(* webhook_stripe runs in its own session; every crud call commits, so a   *)
(* handler is a sequence of transactions: the payment lookup, the payment  *)
(* update or insert, and one insert per commission row.                    *)
(***************************************************************************)
Idle == [pc |-> "idle", charge_id |-> NULL, payment_intent_id |-> NULL,
         user_id_for_payment |-> NULL,
         amount_paid |-> 0, db_payment |-> NULL, level |-> 0, status |-> 0]

NonNullUplines(u) ==
    IF u \in DOMAIN users
    THEN Cardinality({k \in 1..3 : upline_users_and_rates(users[u], environ)[k][1] # NULL})
    ELSE 0

(* Stripe delivers the same event to every worker *)
Deliver(charge_id, payment_intent_id, user_id_for_payment, amount_paid) ==
    /\ \A w \in DOMAIN workers : workers[w].pc = "idle"
    /\ Len(earnings) + NumWorkers * NonNullUplines(user_id_for_payment) <= MaxEarnings
    /\ workers' = [w \in DOMAIN workers |->
                     [Idle EXCEPT !.pc = "lookup", !.charge_id = charge_id,
                                  !.payment_intent_id = payment_intent_id,
                                  !.user_id_for_payment = user_id_for_payment,
                                  !.amount_paid = amount_paid]]
    /\ UNCHANGED <<users, payments, earnings, environ, dotenv, subscriptions, response>>

DeliverTwice ==
    \/ \E c \in DOMAIN payments :
           Deliver(payments[c].transaction_id, payments[c].payment_intent_id,
                   payments[c].user_id, payments[c].amount)
    \/ \E u \in 0..Len(users), a \in AmountsPaid :
           Deliver(Len(payments) + 1, Len(payments) + 1, u, a)

(* Invoices whose charge and PaymentIntent are any of the identifiers in   *)
(* use; an invoice paid without a PaymentIntent has none.                  *)
DeliverInvoice ==
    \E c \in GatewayIds, pi \in {NULL} \cup GatewayIds, u \in DOMAIN users :
        Deliver(c, pi, u, 10000)

(* lines 329-349: resolve the user, look the payment up *)
W_Lookup(w) ==
    /\ workers[w].pc = "lookup"
    /\ workers' = [workers EXCEPT ![w] =
          IF workers[w].user_id_for_payment = NULL
          THEN [@ EXCEPT !.pc = "done", !.status = 200]
          ELSE [@ EXCEPT !.pc = "record",
                         !.db_payment = payment_of_invoice(payments, workers[w].charge_id,
                                            workers[w].payment_intent_id)]]
    /\ UNCHANGED <<users, payments, earnings, environ, dotenv, subscriptions, response>>

(* lines 351-375: update the payment found, or insert one; transaction_id  *)
(* and payment_intent_id are unique=True, so the insert of a second row    *)
(* for the charge or the PaymentIntent raises IntegrityError, which the    *)
(* handler does not catch.                                                 *)
W_RecordPayment(w) ==
    LET me == workers[w]
    IN
    /\ me.pc = "record"
    /\ IF me.db_payment # NULL
       THEN /\ payments' = update_payment_status(payments, me.db_payment, me.charge_id,
                                                 "succeeded")
            /\ workers' = [workers EXCEPT ![w] = [@ EXCEPT !.pc = "commission", !.level = 1]]
       ELSE IF ~(StoredAmount(me.amount_paid) > 0)
               \/ ~PaymentUniqueKeysHold(payments, me.charge_id, me.payment_intent_id)
       THEN /\ payments' = payments
            /\ workers' = [workers EXCEPT ![w] = [@ EXCEPT !.pc = "done", !.status = 500]]
       ELSE /\ Len(payments) < MaxPayments
            /\ payments' = create_payment_record(payments, me.user_id_for_payment,
                                                 StoredAmount(me.amount_paid),
                                                 "succeeded", me.charge_id,
                                                 me.payment_intent_id)
            /\ workers' = [workers EXCEPT ![w] =
                             [@ EXCEPT !.pc = "commission", !.level = 1,
                                       !.db_payment = Len(payments')]]
    /\ UNCHANGED <<users, earnings, environ, dotenv, subscriptions, response>>

(* lines 385-410: one iteration of the loop over upline_users_and_rates *)
W_Commission(w) ==
    LET me == workers[w]
        paying_user == get_user_by_id(users, me.user_id_for_payment)
    IN
    /\ me.pc = "commission"
    /\ IF paying_user = NULL
       THEN /\ earnings' = earnings
            /\ workers' = [workers EXCEPT ![w] = [@ EXCEPT !.pc = "done", !.status = 200]]
       ELSE LET todo == upline_users_and_rates(users[paying_user], environ)
                t == todo[me.level]
            IN  /\ earnings' =
                     IF HasUpline(t[1])
                     THEN create_referral_earning(earnings,
                              ReferralEarningCreate(t[1], paying_user, me.db_payment,
                                  StoredCommission(payments[me.db_payment].amount, t[2]),
                                  t[2], t[3]))
                     ELSE earnings
                /\ workers' = [workers EXCEPT ![w] =
                                 IF me.level = Len(todo)
                                 THEN [@ EXCEPT !.pc = "done", !.status = 200]
                                 ELSE [@ EXCEPT !.level = @ + 1]]
    /\ UNCHANGED <<users, payments, environ, dotenv, subscriptions, response>>

(* both responses have been sent *)
W_Return ==
    /\ workers # <<>>
    /\ \A w \in DOMAIN workers : workers[w].pc = "done"
    /\ workers' = [w \in DOMAIN workers |-> Idle]
    /\ UNCHANGED <<users, payments, earnings, environ, dotenv, subscriptions, response>>

(***************************************************************************)
(* Concurrent calls of update_referral_earning_status on one earning, each *)
(* in its own session: get_referral_earning_by_id reads the row, then the  *)
(* assignment and db.commit() write it.  The flush issues UPDATE ... SET   *)
(* status for an assigned value that differs from the loaded one, with no  *)
(* condition on the status the session read; db.refresh reads the row      *)
(* back for the response.                                                  *)
(***************************************************************************)
IdleAdmin == [pc |-> "idle", earning_id |-> NULL, new_status |-> NoStatus,
              read_status |-> NoStatus, status |-> 0, body |-> NoStatus]

U_Begin(earning_id, new_statuses) ==
    /\ \A w \in DOMAIN workers : workers[w].pc = "idle"
    /\ workers' = [w \in DOMAIN workers |->
                     [IdleAdmin EXCEPT !.pc = "read", !.earning_id = earning_id,
                                       !.new_status = new_statuses[w]]]
    /\ UNCHANGED <<users, payments, earnings, environ, dotenv, subscriptions, response>>

UpdateConcurrently ==
    \E e \in DOMAIN earnings, f \in [DOMAIN workers -> ReferralCommissionStatus] :
        U_Begin(e, f)

(* lines 95-98: db_earning = get_referral_earning_by_id(db, earning_id) *)
U_Read(w) ==
    /\ workers[w].pc = "read"
    /\ workers' = [workers EXCEPT ![w] =
          [@ EXCEPT !.pc = "write",
                    !.read_status = earnings[workers[w].earning_id].status]]
    /\ UNCHANGED <<users, payments, earnings, environ, dotenv, subscriptions, response>>

(* lines 100-107: assign, commit, refresh, return *)
U_Write(w) ==
    LET me == workers[w]
    IN  /\ me.pc = "write"
        /\ earnings' = IF me.new_status # me.read_status
                       THEN [earnings EXCEPT ![me.earning_id].status = me.new_status]
                       ELSE earnings
        /\ workers' = [workers EXCEPT ![w] =
              [@ EXCEPT !.pc = "done", !.status = 200,
                        !.body = earnings'[me.earning_id].status]]
        /\ UNCHANGED <<users, payments, environ, dotenv, subscriptions, response>>

U_Return ==
    /\ workers # <<>>
    /\ \A w \in DOMAIN workers : workers[w].pc = "done"
    /\ workers' = [w \in DOMAIN workers |-> IdleAdmin]
    /\ UNCHANGED <<users, payments, earnings, environ, dotenv, subscriptions, response>>

InitAdmins ==
    /\ users = <<>>
    /\ payments = <<>>
    /\ earnings = <<>>
    /\ subscriptions = <<>>
    /\ environ = DefaultRates
    /\ dotenv = DefaultRates
    /\ response = NoResponse
    /\ workers = [w \in 1..NumWorkers |-> IdleAdmin]

AdminsIdle == \A w \in DOMAIN workers : workers[w].pc = "idle"

NextAdmins ==
    \/ (Len(users) < LedgerUsers /\ AdminsIdle /\ Register)
    \/ (AdminsIdle /\ Len(payments) < FramePayments /\ PaymentSucceeded)
    \/ UpdateConcurrently
    \/ \E w \in DOMAIN workers : U_Read(w)
    \/ \E w \in DOMAIN workers : U_Write(w)
    \/ U_Return

SpecAdmins == InitAdmins /\ [][NextAdmins]_vars

InitConc ==
    /\ users = <<>>
    /\ payments = <<>>
    /\ earnings = <<>>
    /\ subscriptions = <<>>
    /\ environ = DefaultRates
    /\ dotenv = DefaultRates
    /\ response = NoResponse
    /\ workers = [w \in 1..NumWorkers |-> Idle]

NextConc ==
    \/ (Len(users) < LedgerUsers /\ \A w \in DOMAIN workers : workers[w].pc = "idle"
          /\ Register)
    \/ DeliverTwice
    \/ \E w \in DOMAIN workers : W_Lookup(w)
    \/ \E w \in DOMAIN workers : W_RecordPayment(w)
    \/ \E w \in DOMAIN workers : W_Commission(w)
    \/ W_Return

SpecConc == InitConc /\ [][NextConc]_vars

(* Deliveries and redeliveries of invoices, each to two workers, next to   *)
(* payment records created PENDING before the charge exists.               *)
NextReplay ==
    \/ (Len(users) < LedgerUsers /\ \A w \in DOMAIN workers : workers[w].pc = "idle"
          /\ Register)
    \/ ((\A w \in DOMAIN workers : workers[w].pc = "idle") /\ SubscribeBeforeCharge)
    \/ DeliverInvoice
    \/ \E w \in DOMAIN workers : W_Lookup(w)
    \/ \E w \in DOMAIN workers : W_RecordPayment(w)
    \/ \E w \in DOMAIN workers : W_Commission(w)
    \/ W_Return

SpecReplay == InitConc /\ [][NextReplay]_vars

Init ==
    /\ users = <<>>
    /\ payments = <<>>
    /\ earnings = <<>>
    /\ subscriptions = <<>>
    /\ environ = DefaultRates
    /\ dotenv = DefaultRates
    /\ response = NoResponse
    /\ workers = <<>>

NextLineage ==
    \/ Register
    \/ Downline

(* Registrations and GET /referrals/me/stats.                               *)
NextStats ==
    \/ Register
    \/ Stats

SpecStats == Init /\ [][NextStats]_vars

SpecLineage == Init /\ [][NextLineage]_vars

(* create_user under any caller, and the registration route *)
NextCreateUser ==
    \/ CreateUser
    \/ Register

SpecCreateUser == Init /\ [][NextCreateUser]_vars

(* Every operation that runs after a user exists *)
NextFrame ==
    \/ (Len(users) < FrameUsers /\ Register)
    \/ AdminUpdateUser
    \/ (Len(payments) < FramePayments /\ PaymentSucceeded)
    \/ UpdateStatus

SpecFrame == Init /\ [][NextFrame]_vars

(* The ledger under status updates that carry notes *)
NextAudit ==
    \/ (Len(users) < LedgerUsers /\ Register)
    \/ PaymentSucceeded
    \/ UpdateStatusNotes

SpecAudit == Init /\ [][NextAudit]_vars

(* The ledger while users and payments are removed *)
NextRetention ==
    \/ (Len(users) < LedgerUsers /\ Register)
    \/ PaymentSucceeded
    \/ DeleteUser
    \/ DeletePayment

SpecRetention == Init /\ [][NextRetention]_vars

(* Payments through their statuses: created PENDING, failed, succeeded *)
NextPayments ==
    \/ (Len(users) < LedgerUsers /\ Register)
    \/ Subscribe
    \/ PaymentSucceeded
    \/ PaymentFailed

SpecPayments == Init /\ [][NextPayments]_vars

(* Commission generation when an insert can fail *)
NextFailure ==
    \/ (Len(users) < FrameUsers /\ Register)
    \/ PaymentSucceeded
    \/ PaymentSucceededRaising

SpecFailure == Init /\ [][NextFailure]_vars

(***************************************************************************)
(* The .env file of the deployment.  load_dotenv copies it into os.environ *)
(* when main.py, core/config.py and core/database.py are imported, that is *)
(* at process start, and nothing writes os.environ afterwards: an edit of  *)
(* the file while the process runs leaves os.environ, which os.getenv      *)
(* reads, as it was.                                                       *)
(***************************************************************************)
RateFiles == {DefaultRates, <<2000, 1000, 500>>}

os_environ_after_editMut(env, file) == file

os_environ_after_edit(env, file) == env

edit_dotenv(file) ==
    /\ file # dotenv
    /\ dotenv' = file
    /\ environ' = os_environ_after_edit(environ, file)
    /\ response' = Resp("edit_dotenv", 0, <<file>>, <<>>)
    /\ UNCHANGED <<users, payments, earnings, subscriptions, workers>>

EditDotenv == \E file \in RateFiles : edit_dotenv(file)

(* Registrations, payment events and edits of the configuration *)
NextConfig ==
    \/ Len(users) < FrameUsers /\ Register
    \/ PaymentSucceeded
    \/ EditDotenv

SpecConfig == Init /\ [][NextConfig]_vars

(* Registrations, the downline view and payment events *)
NextDownline ==
    \/ Register
    \/ Downline
    \/ Len(payments) < FramePayments /\ PaymentSucceeded

SpecDownline == Init /\ [][NextDownline]_vars

(* Subscriptions and their invoices, paid or failed, with commission       *)
(* inserts that may raise                                                  *)
NextSubscription ==
    \/ Len(users) < LedgerUsers /\ Register
    \/ Subscribe
    \/ InvoicePaid
    \/ InvoicePaidRaising
    \/ InvoiceFailed

SpecSubscription == Init /\ [][NextSubscription]_vars

(* Registrations and payment events: commission generation *)
NextCommission ==
    \/ Register
    \/ PaymentSucceeded

SpecCommission == Init /\ [][NextCommission]_vars

(* The ledger: registrations, payment events, status updates, statistics *)
Next ==
    \/ (Len(users) < LedgerUsers /\ Register)
    \/ PaymentSucceeded
    \/ UpdateStatus
    \/ Stats

Spec == Init /\ [][Next]_vars

(***************************************************************************)
(* Properties of the lineage builder and the downline traversal            *)
(***************************************************************************)
Registered == response.op = "register" /\ response.status = 201

(* The users table as the last registration request found it *)
UsersBefore ==
    IF Registered THEN SubSeq(users, 1, Len(users) - 1) ELSE users

CodeUsed == response.arg[2]

NewUser == users[Len(users)]

(* C5: when create_user is given a referred_by_id that resolves to an      *)
(* existing user R, the new user is stored with upline_l1_id = R.id,       *)
(* upline_l2_id = R.upline_l1_id and upline_l3_id = R.upline_l2_id, with   *)
(* R's pointer values at the time of the call.                             *)
C5_LineageSnapshot ==
    (Registered /\ CodeUsed # NULL) =>
        \E R \in DOMAIN UsersBefore :
            /\ UsersBefore[R].referral_code = CodeUsed
            /\ NewUser.referred_by_id = R
            /\ NewUser.upline_l1_id = R
            /\ NewUser.upline_l2_id = UsersBefore[R].upline_l1_id
            /\ NewUser.upline_l3_id = UsersBefore[R].upline_l2_id

C5_Witness ==
    /\ Registered
    /\ CodeUsed # NULL
    /\ NewUser.upline_l2_id # NULL
    /\ NewUser.upline_l3_id # NULL
    /\ NewUser.upline_l3_id # NewUser.upline_l2_id

(* C6: registering a new identity with no referral code, or with a         *)
(* referral code that matches no existing user, succeeds: a user row is    *)
(* created with all three upline pointers null and no error is returned.   *)
C6_InvalidCodeRegisters ==
    (/\ response.op = "register"
     /\ response.status # 409
     /\ (CodeUsed = NULL \/ get_user_by_referral_code(UsersBefore, CodeUsed) = NULL))
    => /\ response.status = 201
       /\ NewUser.firebase_uid = response.arg[1]
       /\ NewUser.upline_l1_id = NULL
       /\ NewUser.upline_l2_id = NULL
       /\ NewUser.upline_l3_id = NULL

EventPayer == response.arg[2]

EarningsFor(es, payment_id) ==
    {i \in DOMAIN es : es[i].source_payment_id = payment_id}

(* A step that handles invoice.payment_succeeded for a charge whose        *)
(* payment row is already SUCCEEDED: a redelivery.                         *)
IsRedelivery ==
    /\ response'.op = "payment_succeeded"
    /\ response'.status = 200
    /\ response'.arg[2] # NULL
    /\ \E p \in DOMAIN payments :
           /\ payments[p].transaction_id = response'.arg[1]
           /\ payments[p].status = "succeeded"

UplineOf(u, L) ==
    IF L = 1 THEN users[u].upline_l1_id
    ELSE IF L = 2 THEN users[u].upline_l2_id
    ELSE users[u].upline_l3_id

(* A step that handles invoice.payment_succeeded for an identified payer   *)
(* and records the payment.                                                *)
IsProcessing ==
    /\ response'.op = "payment_succeeded"
    /\ response'.status = 200
    /\ response'.arg[2] # NULL

NewEarnings == (DOMAIN earnings') \ (DOMAIN earnings)

(* C7: processing a succeeded payment of payer P creates exactly one row   *)
(* for each level L in 1..3 whose pointer P.upline_lL_id is non-null and   *)
(* none for a null level; the row has user_id = P.upline_lL_id,            *)
(* referral_level = L, status PENDING, referred_user_id = P and            *)
(* source_payment_id = the payment's id.                                   *)
C7_LevelRows ==
    [][IsProcessing =>
        LET P == response'.arg[2]
            pay == CHOOSE p \in DOMAIN payments' :
                       payments'[p].transaction_id = response'.arg[1]
        IN  /\ \A i \in DOMAIN earnings : earnings'[i] = earnings[i]
            /\ \A L \in 1..3 :
                 LET rows == {i \in NewEarnings : earnings'[i].referral_level = L}
                 IN  IF UplineOf(P, L) = NULL THEN rows = {}
                     ELSE /\ Cardinality(rows) = 1
                          /\ \A i \in rows :
                               /\ earnings'[i].user_id = UplineOf(P, L)
                               /\ earnings'[i].status = "pending"
                               /\ earnings'[i].referred_user_id = P
                               /\ earnings'[i].source_payment_id = pay
            /\ \A i \in NewEarnings : earnings'[i].referral_level \in 1..3
            /\ (UplineOf(P, 1) # NULL /\ UplineOf(P, 2) = NULL /\ UplineOf(P, 3) = NULL)
                   => Cardinality(NewEarnings) = 1
    ]_vars

(* a payer with only upline_l1_id set has been processed, and so has a     *)
(* payer with all three uplines *)
C7_Witness ==
    /\ response.op = "payment_succeeded"
    /\ response.status = 200
    /\ EventPayer # NULL
    /\ UplineOf(EventPayer, 1) # NULL
    /\ UplineOf(EventPayer, 2) = NULL
    /\ Cardinality({i \in DOMAIN earnings : earnings[i].referred_user_id = EventPayer}) = 1
    /\ \E q \in DOMAIN users : UplineOf(q, 3) # NULL

(* C8: every commission row created at level L has commission_amount =     *)
(* payment.amount * R_L rounded half-up to cents, and commission_rate =    *)
(* R_L; with rates 0.10, 0.05, 0.02 and a payment of 100.00 the amounts    *)
(* are 10.00, 5.00 and 2.00.                                               *)
C8_RateApplication ==
    [][IsProcessing =>
        \A i \in NewEarnings :
            LET row == earnings'[i]
                R == environ[row.referral_level]
                amount == payments'[row.source_payment_id].amount
            IN  /\ row.commission_rate = R
                /\ 2 * (10000 * row.commission_amount - amount * R) <= 10000
                /\ 2 * (amount * R - 10000 * row.commission_amount) < 10000
                /\ (amount = 10000 /\ environ = <<1000, 500, 200>>) =>
                       row.commission_amount = << 1000, 500, 200 >>[row.referral_level]
    ]_vars

(* the three rows of a payment of 100.00 by a payer with three uplines *)
C8_Witness ==
    /\ response.op = "payment_succeeded"
    /\ environ = <<1000, 500, 200>>
    /\ \E p \in DOMAIN payments :
          /\ payments[p].amount = 10000
          /\ \A L \in 1..3 : \E i \in EarningsFor(earnings, p) :
                /\ earnings[i].referral_level = L
                /\ earnings[i].commission_amount = <<1000, 500, 200>>[L]

AllDone ==
    /\ workers # <<>>
    /\ \A w \in DOMAIN workers : workers[w].pc = "done"

ValidTransitions ==
    {<<"pending", "approved">>, <<"pending", "rejected">>,
     <<"approved", "paid">>, <<"approved", "rejected">>}

(* C4: update_referral_earning_status applies a status change only when    *)
(* (current status, new status) is one of PENDING->APPROVED,               *)
(* PENDING->REJECTED, APPROVED->PAID, APPROVED->REJECTED; for every other  *)
(* pair the call signals an error and the status is left unchanged.        *)
C4_TransitionsChecked ==
    [][(/\ response'.op = "update_status"
        /\ response'.status \notin {400, 404})
       => LET e == response'.arg[1]
              new_status == response'.arg[2]
          IN  IF <<earnings[e].status, new_status>> \in ValidTransitions
              THEN earnings'[e].status = new_status /\ response'.status = 200
              ELSE earnings'[e].status = earnings[e].status /\ response'.status # 200
    ]_vars

RECURSIVE SumOver(_, _)
SumOver(es, S) ==
    IF S = {} THEN 0
    ELSE LET i == CHOOSE x \in S : TRUE
         IN  es[i].commission_amount + SumOver(es, S \ {i})

InStatus(es, u, st) ==
    {i \in DOMAIN es : es[i].user_id = u /\ es[i].status = st}

TotalOf(stats, st) ==
    IF st = "pending" THEN stats.pending_commission_total
    ELSE IF st = "approved" THEN stats.approved_commission_total
    ELSE stats.paid_commission_total

C9_Totals ==
    response.op = "stats" =>
        LET u == response.arg[1]
            b == response.body
        IN  /\ \A st \in {"pending", "approved", "paid"} :
                 /\ TotalOf(b, st) = SumOver(earnings, InStatus(earnings, u, st))
                 /\ TotalOf(b, st) >= 0
            /\ b.lifetime_commission_total =
                 b.pending_commission_total + b.approved_commission_total
                     + b.paid_commission_total
            /\ b.lifetime_commission_total + SumOver(earnings, InStatus(earnings, u, "rejected"))
                 = SumOver(earnings, {i \in DOMAIN earnings : earnings[i].user_id = u})

C9_Moves ==
    (response'.op = "update_status" /\ response'.status = 200) =>
        LET e == response'.arg[1]
            u == earnings[e].user_id
            old == earnings[e].status
            new == earnings'[e].status
            before == get_referral_stats_for_user(users, earnings, u)
            after == get_referral_stats_for_user(users', earnings', u)
        IN  \A st \in {"pending", "approved", "paid"} :
                TotalOf(after, st) =
                    TotalOf(before, st)
                      - (IF st = old THEN earnings[e].commission_amount ELSE 0)
                      + (IF st = new THEN earnings[e].commission_amount ELSE 0)

(* C9: get_referral_stats_for_user(u) returns pending, approved and paid   *)
(* totals that each equal the sum of commission_amount over u's earnings   *)
(* in that status (0.00, never null, when there are none);                 *)
(* lifetime_commission_total = pending + approved + paid, so REJECTED      *)
(* earnings count toward no total; a status update moves an earning's      *)
(* amount from its old status total to its new one.                        *)
C9_AggregateTotals == []C9_Totals /\ [][C9_Moves]_vars

C9_Witness ==
    /\ response.op = "stats"
    /\ response.body.pending_commission_total > 0
    /\ response.body.approved_commission_total > 0
    /\ response.body.paid_commission_total > 0

(***************************************************************************)
(* Properties of the stored lineage                                        *)
(***************************************************************************)
(* C11: in every reachable state every user satisfies                      *)
(* upline_l1_id = referred_by_id (both null, or the same user id), also    *)
(* a user created by create_user with a referred_by_id that resolves to    *)
(* no existing user.                                                       *)
C11_UplineIsReferrer ==
    \A u \in DOMAIN users : users[u].upline_l1_id = users[u].referred_by_id

LineageOf(row) ==
    <<row.referred_by_id, row.upline_l1_id, row.upline_l2_id, row.upline_l3_id>>

(* C12: after a user is created no operation changes its referred_by_id,   *)
(* upline_l1_id, upline_l2_id or upline_l3_id: later registrations (also   *)
(* ones that name this user or its referrer as referrer), admin user       *)
(* updates, payment processing and commission status updates leave the     *)
(* four fields unchanged, and no user row disappears.                      *)
C12_LineageImmutable ==
    [][/\ DOMAIN users \subseteq DOMAIN users'
       /\ \A u \in DOMAIN users : LineageOf(users'[u]) = LineageOf(users[u])]_vars

(* an admin update has changed the role of a user that has uplines, after  *)
(* a later user registered with that user's referrer as its own *)
C12_Witness ==
    /\ response.op = "admin_update_user"
    /\ response.status = 200
    /\ \E u, v \in DOMAIN users :
          /\ u = response.arg[1]
          /\ users[u].role = "Admin"
          /\ users[u].upline_l1_id # NULL
          /\ v > u
          /\ users[v].referred_by_id = users[u].referred_by_id
    /\ earnings # <<>>

(***************************************************************************)
(* Properties of the ledger rows under status updates                      *)
(***************************************************************************)
AuditFields(row) ==
    <<row.commission_amount, row.commission_rate, row.referral_level, row.user_id,
      row.referred_user_id, row.source_payment_id>>

(* C13: update_referral_earning_status changes at most the status and the  *)
(* notes of the addressed earning: its commission_amount, commission_rate, *)
(* referral_level, user_id, referred_user_id and source_payment_id, and    *)
(* every field of every other row, are unchanged by every status update.   *)
C13_StatusUpdateFrame ==
    [][response'.op = "update_status" =>
         /\ DOMAIN earnings' = DOMAIN earnings
         /\ \A i \in DOMAIN earnings :
               /\ AuditFields(earnings'[i]) = AuditFields(earnings[i])
               /\ (response'.status # 200 \/ i # response'.arg[1])
                      => earnings'[i] = earnings[i]
    ]_vars

(* a status update with notes has been applied to one of several rows *)
C13_Witness ==
    /\ response.op = "update_status"
    /\ response.status = 200
    /\ Len(earnings) >= 2
    /\ earnings[response.arg[1]].status = "rejected"
    /\ earnings[response.arg[1]].notes # NULL
    /\ earnings[response.arg[1]].commission_amount > 0
    /\ \E j \in DOMAIN earnings : earnings[j].status = "paid"

LiveEarnings(es) == {i \in DOMAIN es : es[i] # DeletedEarning}

(* C14: a commission row, once created, is never removed: in every         *)
(* behaviour the set of ReferralEarning ids only grows, and when the       *)
(* source user or the source payment of a row is removed the row persists  *)
(* with that reference set to null.                                        *)
C14_NeverDeleted ==
    [][\A i \in LiveEarnings(earnings) :
          /\ i \in LiveEarnings(earnings')
          /\ earnings'[i].user_id = earnings[i].user_id
          /\ earnings'[i].referred_user_id \in {earnings[i].referred_user_id, NULL}
          /\ earnings'[i].source_payment_id \in {earnings[i].source_payment_id, NULL}
    ]_vars

(***************************************************************************)
(* Properties of commission generation and the payment status              *)
(***************************************************************************)
(* C15: commission rows are created only for a payment whose stored status *)
(* is SUCCEEDED at the moment the rows are created, and handling an event  *)
(* for a payment that is not succeeded (invoice.payment_failed, the        *)
(* creation of the PENDING record) creates no commission row.              *)
C15_OnlySucceededPayments ==
    [][/\ \A i \in NewEarnings :
            /\ earnings'[i].source_payment_id \in DOMAIN payments'
            /\ payments'[earnings'[i].source_payment_id].status = "succeeded"
       /\ response'.op \in {"payment_failed", "create_subscription"}
              => earnings' = earnings
    ]_vars

(* a payment created PENDING has been paid and has its commission row,     *)
(* while the event last handled set another payment to FAILED, which has   *)
(* no row *)
C15_Witness ==
    /\ response.op = "payment_failed"
    /\ \E p \in DOMAIN payments :
          /\ payments[p].transaction_id = response.arg[1]
          /\ payments[p].status = "failed"
          /\ EarningsFor(earnings, p) = {}
          /\ users[payments[p].user_id].upline_l1_id # NULL
    /\ \E q \in DOMAIN payments :
          /\ payments[q].status = "succeeded"
          /\ EarningsFor(earnings, q) # {}

(***************************************************************************)
(* Properties of the commission status lifecycle                           *)
(***************************************************************************)
(* C16: over any sequence of status updates each earning's status history  *)
(* is a path of the lifecycle graph starting at PENDING: PENDING to        *)
(* APPROVED or REJECTED, APPROVED to PAID or REJECTED, and an earning that *)
(* is PAID or REJECTED never changes status again.                         *)
C16_LifecyclePaths ==
    [][/\ \A i \in NewEarnings : earnings'[i].status = "pending"
       /\ \A i \in DOMAIN earnings :
             \/ earnings'[i].status = earnings[i].status
             \/ <<earnings[i].status, earnings'[i].status>> \in ValidTransitions
    ]_vars

(* C17: when update_referral_earning_status calls on the same earning      *)
(* interleave, the outcome is that of a serial order of the calls: a write *)
(* is applied only if the status its call read is still the current one,   *)
(* so no update is lost, the final status is the one written by a call     *)
(* that reports success, and two calls that both read status S cannot both *)
(* be reported as having applied different changes of S (PENDING to        *)
(* APPROVED and PENDING to REJECTED).                                      *)
C17_SerialStatusUpdates ==
    AllDone =>
        /\ \E w \in DOMAIN workers :
              /\ workers[w].status = 200
              /\ earnings[workers[w].earning_id].status = workers[w].new_status
        /\ \A v, w \in DOMAIN workers :
              (/\ v # w
               /\ workers[v].status = 200
               /\ workers[w].status = 200
               /\ workers[v].read_status = workers[w].read_status
               /\ workers[v].new_status # workers[v].read_status
               /\ workers[w].new_status # workers[w].read_status)
              => workers[v].new_status = workers[w].new_status

(***************************************************************************)
(* Properties of the referral graph                                        *)
(***************************************************************************)
Parent(x) ==
    IF x \in DOMAIN users THEN users[x].referred_by_id ELSE NULL

UplinesOf(u) ==
    <<users[u].upline_l1_id, users[u].upline_l2_id, users[u].upline_l3_id>>

ChainOfFour ==
    /\ Len(users) >= 4
    /\ Parent(1) = NULL
    /\ \A i \in 2..4 : Parent(i) = i - 1

(* C18: in every reachable state and for every user u, with parent(x) =    *)
(* x.referred_by_id: u.upline_l1_id = parent(u), u.upline_l2_id =          *)
(* parent(parent(u)) and u.upline_l3_id = parent(parent(parent(u))), each  *)
(* null when the chain ends earlier; for registrations U1 <- U2 <- U3 <-   *)
(* U4, U2 has (U1, null, null), U3 has (U2, U1, null), U4 has (U3, U2, U1).*)
C18_UplinesFollowParents ==
    /\ \A u \in DOMAIN users :
          UplinesOf(u) = <<Parent(u), Parent(Parent(u)), Parent(Parent(Parent(u)))>>
    /\ ChainOfFour =>
          /\ UplinesOf(1) = <<NULL, NULL, NULL>>
          /\ UplinesOf(2) = <<1, NULL, NULL>>
          /\ UplinesOf(3) = <<2, 1, NULL>>
          /\ UplinesOf(4) = <<3, 2, 1>>

C18_Witness ==
    /\ ChainOfFour
    /\ Registered
    /\ Len(users) = 4
    /\ CodeUsed = users[3].referral_code

RECURSIVE UplineL1Chain(_, _)
(* the users met by following upline_l1_id from u, k steps at most *)
UplineL1Chain(u, k) ==
    IF k = 0 \/ u \notin DOMAIN users \/ users[u].upline_l1_id = NULL THEN {}
    ELSE {users[u].upline_l1_id} \cup UplineL1Chain(users[u].upline_l1_id, k - 1)

(* C19: in every reachable state the upline pointers form a forest: every  *)
(* non-null upline pointer of a user refers to a user created strictly     *)
(* earlier, so no user is its own upline at any level and following        *)
(* upline_l1_id from a user never returns to that user.                    *)
C19_UplineForest ==
    \A u \in DOMAIN users :
        /\ \A p \in {users[u].upline_l1_id, users[u].upline_l2_id, users[u].upline_l3_id} :
              p = NULL \/ (p \in DOMAIN users /\ p < u)
        /\ u \notin UplineL1Chain(u, Len(users))

(* a user with three uplines has been created, next to a user whose        *)
(* referred_by_id resolved to no user when it was created *)
C19_Witness ==
    /\ response.op = "create_user"
    /\ response.status = 1
    /\ NewUser.upline_l3_id # NULL
    /\ \E v \in DOMAIN users : users[v].referred_by_id = v

(***************************************************************************)
(* Properties of commission generation under failures                      *)
(***************************************************************************)
(* C20: if creating the commission row of one level fails while a          *)
(* succeeded payment is processed, the rows of the payer's other non-null  *)
(* upline levels are still created (or are there already, as duplicates    *)
(* skipped): a failure at level 1 does not prevent the rows of levels 2    *)
(* and 3.                                                                  *)
C20_OtherLevelsSurvive ==
    [][(/\ response'.op = "payment_succeeded"
        /\ response'.status = 500
        /\ Len(response'.arg) = 4)
       => LET P == response'.arg[2]
              failed == response'.arg[4]
              pay == get_payment_by_transaction_id(payments', response'.arg[1])
          IN  \A L \in (1..3) \ {failed} :
                  UplineOf(P, L) # NULL =>
                      \E i \in EarningsFor(earnings', pay) :
                          /\ earnings'[i].referral_level = L
                          /\ earnings'[i].user_id = UplineOf(P, L)
    ]_vars

(***************************************************************************)
(* C21: a failure during commission generation never undoes the payment's  *)
(* success.  Every handling of invoice.payment_succeeded that reaches the  *)
(* commission loop, whether it ends normally (all rows created) or with an *)
(* exception raised by the insert of level 1, 2 or 3 (none or some rows    *)
(* created), leaves the payment row of the charge SUCCEEDED, and leaves    *)
(* every payment that was SUCCEEDED before SUCCEEDED.                      *)
(***************************************************************************)
ReachedCommissionLoop(r) ==
    /\ r.op = "payment_succeeded"
    /\ \/ r.status = 200 /\ r.arg[2] # NULL
       \/ r.status = 500 /\ Len(r.arg) = 4

C21_PaymentStaysSucceeded ==
    [][ReachedCommissionLoop(response') =>
          LET pay == get_payment_by_transaction_id(payments', response'.arg[1])
          IN  /\ pay # NULL
              /\ payments'[pay].status = "succeeded"
              /\ \A p \in DOMAIN payments :
                     payments[p].status = "succeeded" => payments'[p].status = "succeeded"]_vars

(* The insert of the level-2 row raised: the level-1 row exists, the       *)
(* level-2 row does not, the payment is SUCCEEDED.                         *)
C21_Witness ==
    /\ response.op = "payment_succeeded"
    /\ response.status = 500
    /\ Len(response.arg) = 4
    /\ response.arg[4] = 2
    /\ LET pay == get_payment_by_transaction_id(payments, response.arg[1])
       IN  /\ pay # NULL
           /\ payments[pay].status = "succeeded"
           /\ {earnings[e].referral_level : e \in EarningsFor(earnings, pay)} = {1}

(***************************************************************************)
(* C22: get_downline_users_flat short-circuits.  When the level-1 query    *)
(* returns nothing, every level 1..max_levels of the result is empty and   *)
(* the level-1 query is the only one issued; when the level-2 query        *)
(* returns nothing, level 3 of the result is empty and no level-3 query is *)
(* issued.                                                                 *)
(***************************************************************************)
C22_DownlineShortCircuits ==
    response.op = "downline" =>
        LET u == response.arg[1]
            m == response.arg[2]
            d == response.body.by_level
            q == response.body.queries
            level1 == {i \in DOMAIN users : users[i].upline_l1_id = u}
            level2 == {i \in DOMAIN users : users[i].upline_l1_id \in level1}
        IN  /\ Len(q) >= 1
            /\ q[1] = {u}
            /\ level1 = {} => (\A k \in 1..m : d[k] = {}) /\ Len(q) = 1
            /\ (level1 # {} /\ level2 = {} /\ m >= 2) =>
                   /\ \A k \in 2..m : d[k] = {}
                   /\ Len(q) = 2
                   /\ q[2] = level1

(* Three levels asked of a user with direct referrals none of whom has     *)
(* referred anyone.                                                        *)
C22_Witness ==
    /\ response.op = "downline"
    /\ response.arg[2] = 3
    /\ response.body.by_level[1] # {}
    /\ response.body.by_level[2] = {}
    /\ response.body.by_level[3] = {}
    /\ Len(response.body.queries) = 2

(***************************************************************************)
(* C23: for every user u the counts total_direct_referrals,                *)
(* total_l2_referrals and total_l3_referrals of                            *)
(* get_referral_stats_for_user(u) are the sizes of levels 1, 2 and 3 of    *)
(* get_downline_users_flat(u, 3) over the same users table.                *)
(***************************************************************************)
C23_StatsCountDownline ==
    response.op = "stats" =>
        LET d == get_downline_users_flat(users, response.arg[1], 3)
        IN  /\ response.body.total_direct_referrals = Cardinality(d[1])
            /\ response.body.total_l1_referrals = Cardinality(d[1])
            /\ response.body.total_l2_referrals = Cardinality(d[2])
            /\ response.body.total_l3_referrals = Cardinality(d[3])

C23_Witness ==
    /\ response.op = "stats"
    /\ response.body.total_direct_referrals > 0
    /\ response.body.total_l2_referrals > 0
    /\ response.body.total_l3_referrals > 0
    /\ get_downline_users_flat(users, response.arg[1], 3)[3] # {}

(***************************************************************************)
(* C24: every distinct succeeded payment of a payer triggers its own       *)
(* commission generation.  In every state each succeeded payment of a      *)
(* payer has rows for exactly the payer's non-null upline levels, credited *)
(* to those uplines; the first delivery of a charge creates k rows for the *)
(* new payment id, k the number of the payer's non-null upline levels,     *)
(* whatever rows earlier payments of the same payer already have; and the  *)
(* handling of one payment leaves the rows of every other payment as they  *)
(* were.  So after n distinct payments, each delivered once, the ledger    *)
(* holds k rows for each of the n payment ids.                             *)
(***************************************************************************)
UplineLevels(u) == {L \in 1..3 : UplineOf(u, L) # NULL}

RowsOf(p, L) ==
    {i \in DOMAIN earnings : earnings[i].source_payment_id = p /\ earnings[i].referral_level = L}

EveryPaymentHasItsRows ==
    \A p \in DOMAIN payments :
        (payments[p].status = "succeeded" /\ payments[p].user_id # NULL) =>
            \A L \in 1..3 :
                IF L \in UplineLevels(payments[p].user_id)
                THEN /\ RowsOf(p, L) # {}
                     /\ \A i \in RowsOf(p, L) :
                            /\ earnings[i].user_id = UplineOf(payments[p].user_id, L)
                            /\ earnings[i].referred_user_id = payments[p].user_id
                ELSE RowsOf(p, L) = {}

C24_EveryPaymentGenerates ==
    [][/\ EveryPaymentHasItsRows'
       /\ IsProcessing =>
            LET pay == get_payment_by_transaction_id(payments', response'.arg[1])
            IN  /\ \A q \in (DOMAIN payments) \ {pay} :
                       EarningsFor(earnings', q) = EarningsFor(earnings, q)
                /\ \A i \in DOMAIN earnings : earnings'[i] = earnings[i]
                /\ get_payment_by_transaction_id(payments, response'.arg[1]) = NULL =>
                       Cardinality(EarningsFor(earnings', pay))
                           = Cardinality(UplineLevels(response'.arg[2]))
      ]_vars

(* Two payments of one payer with an upline, each with its own k rows.     *)
C24_Witness ==
    \E p1, p2 \in DOMAIN payments :
        /\ p1 # p2
        /\ payments[p1].user_id # NULL
        /\ payments[p1].user_id = payments[p2].user_id
        /\ payments[p1].status = "succeeded"
        /\ payments[p2].status = "succeeded"
        /\ UplineLevels(payments[p1].user_id) # {}
        /\ \A p \in {p1, p2} :
               Cardinality(EarningsFor(earnings, p))
                   = Cardinality(UplineLevels(payments[p].user_id))

(***************************************************************************)
(* C25: the commission rates are fixed for the lifetime of the process.    *)
(* Every payment the process handles uses the rates R_1, R_2, R_3 that     *)
(* were in effect when it started, also when the configured                *)
(* COMMISSION_RATE_L1/L2/L3 values have been changed between two payment   *)
(* events.                                                                 *)
(***************************************************************************)
RatesAtStart == DefaultRates

DownlineIsSnapshot ==
    \A u \in DOMAIN users, k \in 1..3 :
        get_downline_users_flat(users, u, 3)[k] = {x \in DOMAIN users : UplineOf(x, k) = u}

C26_DownlineMatchesUplines ==
    [][/\ DownlineIsSnapshot'
       /\ IsProcessing =>
            \A u \in DOMAIN users, k \in 1..3 :
                (\E i \in NewEarnings : /\ earnings'[i].user_id = u
                                        /\ earnings'[i].referral_level = k)
                    <=> response'.arg[2] \in get_downline_users_flat(users, u, 3)[k]
      ]_vars

(* The payer is in the level-3 downline of the user credited at level 3.   *)
C26_Witness ==
    /\ response.op = "payment_succeeded"
    /\ response.status = 200
    /\ EventPayer # NULL
    /\ \E i \in DOMAIN earnings :
           /\ earnings[i].referral_level = 3
           /\ earnings[i].referred_user_id = EventPayer
           /\ EventPayer \in get_downline_users_flat(users, earnings[i].user_id, 3)[3]
           /\ get_downline_users_flat(users, earnings[i].user_id, 3)[2] # {}

(***************************************************************************)
(* C27: in every reachable state the upline pointers of every user are     *)
(* prefix-closed: upline_l3_id non-null implies upline_l2_id non-null, and *)
(* upline_l2_id non-null implies upline_l1_id non-null; so the rows a      *)
(* payment produces are those of levels 1..j for some j: never a level-2   *)
(* or level-3 row without the rows of the lower levels.                    *)
(***************************************************************************)
UplinesPrefixClosed ==
    \A u \in DOMAIN users :
        /\ users[u].upline_l3_id # NULL => users[u].upline_l2_id # NULL
        /\ users[u].upline_l2_id # NULL => users[u].upline_l1_id # NULL

C27_PrefixClosed ==
    [][/\ UplinesPrefixClosed'
       /\ IsProcessing =>
            {earnings'[i].referral_level : i \in NewEarnings} = 1..Cardinality(NewEarnings)
      ]_vars

(* A payer with two uplines has paid: rows of levels 1 and 2, and a user   *)
(* with three uplines exists.                                              *)
C27_Witness ==
    /\ response.op = "payment_succeeded"
    /\ response.status = 200
    /\ EventPayer # NULL
    /\ UplineOf(EventPayer, 2) # NULL
    /\ UplineOf(EventPayer, 3) = NULL
    /\ {earnings[i].referral_level : i \in DOMAIN earnings} = {1, 2}
    /\ \E u \in DOMAIN users : users[u].upline_l3_id # NULL

(***************************************************************************)
(* C28: in every reachable ledger state no commission is credited to the   *)
(* payer itself (user_id differs from referred_user_id on every row), and  *)
(* the rows of one payment at different levels have pairwise different     *)
(* earning users.                                                          *)
(***************************************************************************)
C28_NoSelfCommission ==
    /\ \A i \in DOMAIN earnings : earnings[i].user_id # earnings[i].referred_user_id
    /\ \A i, j \in DOMAIN earnings :
           (/\ earnings[i].source_payment_id = earnings[j].source_payment_id
            /\ earnings[i].referral_level # earnings[j].referral_level)
               => earnings[i].user_id # earnings[j].user_id

(* One payment with rows at the three levels, for three users other than   *)
(* the payer.                                                              *)
C28_Witness ==
    \E p \in DOMAIN payments :
        /\ {earnings[i].referral_level : i \in EarningsFor(earnings, p)} = {1, 2, 3}
        /\ Cardinality({earnings[i].user_id : i \in EarningsFor(earnings, p)}) = 3
        /\ payments[p].user_id \notin {earnings[i].user_id : i \in EarningsFor(earnings, p)}

(***************************************************************************)
(* C29: replaying invoice.payment_succeeded for the same charge id or      *)
(* PaymentIntent id never creates a second Payment row: in every state     *)
(* there is at most one Payment row per transaction_id and per             *)
(* payment_intent_id, also when two deliveries of the event are handled    *)
(* concurrently; and a row is only ever inserted for a charge and a        *)
(* PaymentIntent no row had.                                               *)
(***************************************************************************)
OnePaymentPerId ==
    \A p, q \in DOMAIN payments :
        p # q =>
            /\ payments[p].transaction_id # NULL
                   => payments[p].transaction_id # payments[q].transaction_id
            /\ payments[p].payment_intent_id # NULL
                   => payments[p].payment_intent_id # payments[q].payment_intent_id

C29_OnePaymentPerId ==
    [][/\ OnePaymentPerId'
       /\ Len(payments') > Len(payments) =>
            LET row == payments'[Len(payments')]
            IN  /\ Len(payments') = Len(payments) + 1
                /\ \A p \in DOMAIN payments :
                       /\ payments'[p].transaction_id = payments[p].transaction_id
                          \/ payments[p].transaction_id = NULL
                       /\ payments'[p].payment_intent_id = payments[p].payment_intent_id
                       /\ row.transaction_id = NULL
                          \/ payments[p].transaction_id # row.transaction_id
                       /\ row.payment_intent_id = NULL
                          \/ payments[p].payment_intent_id # row.payment_intent_id
      ]_vars

(* Both deliveries of an invoice missed the lookup; one inserted the row,  *)
(* the insert of the other raised.                                         *)
C29_Witness ==
    /\ workers # <<>>
    /\ \A w \in DOMAIN workers : workers[w].pc = "done"
    /\ \E w \in DOMAIN workers : workers[w].status = 500
    /\ \E w \in DOMAIN workers : workers[w].status = 200
    /\ Cardinality({p \in DOMAIN payments :
                       payments[p].transaction_id = workers[1].charge_id}) = 1
    /\ Len(payments) = MaxPayments

(***************************************************************************)
(* C30: whenever webhook_stripe handles invoice.payment_succeeded for an   *)
(* invoice whose subscription id matches a local UserSubscription, that    *)
(* subscription has status ACTIVE when the handling ends, whether or not   *)
(* the payer has uplines and whether or not creating a commission row      *)
(* fails.                                                                  *)
(***************************************************************************)
C30_SubscriptionEndsActive ==
    [][(/\ response'.op = "payment_succeeded"
        /\ response'.body.subscription # NULL
        /\ response'.status = 200 \/ Len(response'.arg) = 4)
          => subscriptions'[response'.body.subscription].status = "active"]_vars

====
